---- MODULE Spec2Model ----
(***************************************************************************)
(* OTLP gRPC trace exporter (exporters/otlp/src/otlp_grpc_exporter.cc).    *)
(*                                                                         *)
(* Several OtlpGrpcExporter objects are built on one shared OtlpGrpcClient.*)
(* Each exporter owns a reference guard that it registers with the client  *)
(* in its constructor and takes back in Shutdown or in its destructor.     *)
(* The exporter's methods are translated from otlp_grpc_exporter.cc; the   *)
(* OtlpGrpcClient they call (otlp_grpc_client.cc) is not part of the       *)
(* sources at hand and is modelled from the specification, section 4.3.    *)
(*                                                                         *)
(* Spec runs the public calls one at a time: every action is one whole     *)
(* call of a constructor, Export, ForceFlush, Shutdown or the destructor,  *)
(* or one completion of an asynchronous request on the client's worker.    *)
(***************************************************************************)
EXTENDS Naturals, FiniteSets, Bags

\* ------------------------------------------------------------------ bounds

\* Number of exporter objects that may be built on the shared client.
NumExporters == 2

\* Largest number of spans handed to one Export call.
MaxSpans == 1

\* Cap on the number of requests the transport receives in one run.
MaxRpc == 2

\* Largest number of calls that threads have in progress at the same time.
MaxCalls == 2

Exporters == 1..NumExporters

Batches == 0..MaxSpans

\* Values of options_.max_concurrent_requests that are exercised: the largest
\* that selects the synchronous path and the smallest that selects the
\* asynchronous one.
ConcurrencyValues == {1, 2}

kSuccess == "kSuccess"

kFailure == "kFailure"

\* ------------------------------------------------------------------- state

VARIABLES
  async_build,              \* ENABLE_ASYNC_EXPORT is defined in this build
  life,                     \* exporter -> "none" | "live" | "destroyed"
  is_shutdown_,             \* exporter -> OtlpGrpcExporter::is_shutdown_
  client_,                  \* exporter -> client_ is non-null
  trace_service_stub_,      \* exporter -> trace_service_stub_ is non-null
  max_concurrent_requests,  \* exporter -> options_.max_concurrent_requests
  guard_calls,              \* exporter -> client calls made with its guard
  refs,                     \* shared client: guards registered as live holders
  client_is_shutdown,       \* shared client: the one-time shutdown transition
  transport_released,       \* shared client: times the transport was released
  running_requests,         \* shared client: asynchronous requests in flight
  transport_calls,          \* transport: requests received so far
  shutdown_returned,        \* exporter -> a Shutdown call on it has returned
  calls,                    \* bag of the calls that threads have in progress
  last                      \* the last public call, what it called, its result

vars == <<async_build, life, is_shutdown_, client_, trace_service_stub_,
          max_concurrent_requests, guard_calls, refs, client_is_shutdown,
          transport_released, running_requests, transport_calls,
          shutdown_returned, calls, last>>

exporter_vars == <<life, is_shutdown_, client_, trace_service_stub_,
                   max_concurrent_requests>>

client_vars == <<refs, client_is_shutdown, transport_released, running_requests>>

NoGuardCalls == [add |-> 0, shutdown |-> 0, remove |-> 0]

NoCall == [op |-> "none", e |-> 0, spans |-> 0, ret |-> "none",
           path |-> "none", cop |-> "none", cret |-> TRUE]

Init ==
  /\ async_build \in BOOLEAN
  /\ life = [e \in Exporters |-> "none"]
  /\ is_shutdown_ = [e \in Exporters |-> FALSE]
  /\ client_ = [e \in Exporters |-> FALSE]
  /\ trace_service_stub_ = [e \in Exporters |-> FALSE]
  /\ max_concurrent_requests = [e \in Exporters |-> 1]
  /\ guard_calls = [e \in Exporters |-> NoGuardCalls]
  /\ refs = {}
  /\ client_is_shutdown = FALSE
  /\ transport_released = 0
  /\ running_requests = 0
  /\ transport_calls = 0
  /\ shutdown_returned = [e \in Exporters |-> FALSE]
  /\ calls = EmptyBag
  /\ last = NoCall

\* ------------------------------------------------------- the shared client
\* OtlpGrpcClient is declared in otlp_grpc_client.h and defined in
\* otlp_grpc_client.cc; what follows is its contract as section 4.3 of the
\* specification gives it.

\* AddReference(guard, options): registers the guard as a live holder.
ClientAddReference(g) ==
  /\ refs' = refs \cup {g}
  /\ UNCHANGED <<client_is_shutdown, transport_released, running_requests>>

\* The guard g is the last registered one.
LastReference(g) == g \in refs /\ refs \ {g} = {}

\* RemoveReference(guard): decrement without draining. The last reference
\* leaving makes the client release its transport, once.
ClientRemoveReference(g) ==
  /\ refs' = refs \ {g}
  /\ IF LastReference(g) /\ ~client_is_shutdown
       THEN /\ client_is_shutdown' = TRUE
            /\ transport_released' = transport_released + 1
       ELSE UNCHANGED <<client_is_shutdown, transport_released>>
  /\ UNCHANGED running_requests

\* Shutdown(guard, timeout) returns whether the drain finished in time;
\* drained tells whether the requests in flight finish within the timeout.
\* A guard that is not the last one, or not registered, has nothing to wait for.
ClientShutdownResult(g, drained) ==
  IF LastReference(g) /\ ~client_is_shutdown
    THEN running_requests = 0 \/ drained
    ELSE TRUE

\* Shutdown(guard, timeout): decrement; for the last reference stop accepting
\* sends, wait for the requests in flight, release the transport.
ClientShutdown(g, drained) ==
  /\ refs' = refs \ {g}
  /\ IF LastReference(g) /\ ~client_is_shutdown
       THEN /\ client_is_shutdown' = TRUE
            /\ transport_released' = transport_released + 1
            /\ running_requests' = IF drained THEN 0 ELSE running_requests
       ELSE UNCHANGED <<client_is_shutdown, transport_released, running_requests>>

\* ForceFlush(timeout) returns whether the requests in flight finished in time.
ClientForceFlushResult(drained) == running_requests = 0 \/ drained

\* ForceFlush(timeout): a point-in-time drain.
ClientForceFlush(drained) ==
  /\ running_requests' = IF drained THEN 0 ELSE running_requests
  /\ UNCHANGED <<refs, client_is_shutdown, transport_released>>

\* DelegateAsyncExport admits the request when the client still accepts sends
\* and fewer than max_concurrent requests are in flight; otherwise it rejects.
AsyncAdmitted(max_concurrent) ==
  ~client_is_shutdown /\ running_requests < max_concurrent

\* DelegateAsyncExport(..., max_concurrent, ...): an admitted request goes to
\* the transport and stays in flight until its completion runs.
DelegateAsyncExport(max_concurrent) ==
  /\ IF AsyncAdmitted(max_concurrent)
       THEN /\ transport_calls < MaxRpc
            /\ transport_calls' = transport_calls + 1
            /\ running_requests' = running_requests + 1
       ELSE UNCHANGED <<transport_calls, running_requests>>
  /\ UNCHANGED <<refs, client_is_shutdown, transport_released>>

\* DelegateExport(stub, ...): a static function that needs no client; the
\* request goes to the transport through the stub, whatever the client's state.
DelegateExport ==
  /\ transport_calls < MaxRpc
  /\ transport_calls' = transport_calls + 1
  /\ UNCHANGED client_vars

\* ------------------------------------------------------------ the exporter

\* A constructor that takes a client: the members are initialised, the guard
\* is created and registered with the client.
ConstructExporter(e, stub, max_concurrent) ==
  /\ life[e] = "none"
  /\ life' = [life EXCEPT ![e] = "live"]
  /\ client_' = [client_ EXCEPT ![e] = TRUE]
  /\ trace_service_stub_' = [trace_service_stub_ EXCEPT ![e] = stub]
  /\ max_concurrent_requests' = [max_concurrent_requests EXCEPT ![e] = max_concurrent]
  /\ ClientAddReference(e)
  /\ guard_calls' = [guard_calls EXCEPT ![e].add = @ + 1]
  /\ UNCHANGED <<async_build, is_shutdown_, transport_calls, shutdown_returned,
                 calls, last>>

\* OtlpGrpcExporter(options, client): the stub is what MakeTraceServiceStub
\* returns, which may be no stub.
ConstructFromOptions(e) ==
  \E stub \in BOOLEAN, max_concurrent \in ConcurrencyValues :
    ConstructExporter(e, stub, max_concurrent)

\* Variant of ConstructFromStub that leaves out client_->AddReference.
ConstructFromStubNoReference(e) ==
  \E stub \in BOOLEAN, max_concurrent \in ConcurrencyValues :
    /\ life[e] = "none"
    /\ life' = [life EXCEPT ![e] = "live"]
    /\ client_' = [client_ EXCEPT ![e] = TRUE]
    /\ trace_service_stub_' = [trace_service_stub_ EXCEPT ![e] = stub]
    /\ max_concurrent_requests' = [max_concurrent_requests EXCEPT ![e] = max_concurrent]
    /\ UNCHANGED <<async_build, is_shutdown_, transport_calls, shutdown_returned,
                   calls, last, client_vars, guard_calls>>

\* OtlpGrpcExporter(stub, client): the stub is the caller's, which may be
\* null; the options are the default ones.
ConstructFromStub(e) ==
  \E stub \in BOOLEAN, max_concurrent \in ConcurrencyValues :
    ConstructExporter(e, stub, max_concurrent)

\* Variant of DestructorRemoves: the destructor never gives the reference back.
DestructorNeverRemoves(held) == FALSE

\* Variant of DestructorRemoves: the destructor does not test client_.
DestructorAlwaysRemoves(held) == TRUE

\* ~OtlpGrpcExporter: if (client_) client_->RemoveReference(guard)
DestructorRemoves(held) == held

\* ~OtlpGrpcExporter, then the members are gone.
Destroy(e) ==
  /\ life[e] = "live"
  /\ IF DestructorRemoves(client_[e])
       THEN /\ ClientRemoveReference(e)
            /\ guard_calls' = [guard_calls EXCEPT ![e].remove = @ + 1]
       ELSE UNCHANGED <<client_vars, guard_calls>>
  /\ life' = [life EXCEPT ![e] = "destroyed"]
  /\ is_shutdown_' = [is_shutdown_ EXCEPT ![e] = FALSE]
  /\ client_' = [client_ EXCEPT ![e] = FALSE]
  /\ trace_service_stub_' = [trace_service_stub_ EXCEPT ![e] = FALSE]
  /\ max_concurrent_requests' = [max_concurrent_requests EXCEPT ![e] = 1]
  /\ UNCHANGED <<async_build, transport_calls, shutdown_returned, calls, last>>

\* Variant of ExportGuard: the empty batch is tested first.
ExportGuardEmptyFirst(shutdown, client, stub, spans) ==
  IF spans = 0 THEN "empty"
  ELSE IF shutdown \/ ~client THEN "shutdown"
  ELSE IF ~stub THEN "no_stub"
  ELSE "send"

\* Variant of ExportGuard: the stub is tested after the empty batch.
ExportGuardStubLast(shutdown, client, stub, spans) ==
  IF shutdown \/ ~client THEN "shutdown"
  ELSE IF spans = 0 THEN "empty"
  ELSE IF ~stub THEN "no_stub"
  ELSE "send"

\* Variant of ExportGuard: the empty batch is not tested.
ExportGuardNoEmptyTest(shutdown, client, stub, spans) ==
  IF shutdown \/ ~client THEN "shutdown"
  ELSE IF ~stub THEN "no_stub"
  ELSE "send"

\* The guards at the head of Export, in the order the code tests them.
ExportGuard(shutdown, client, stub, spans) ==
  IF shutdown \/ ~client THEN "shutdown"
  ELSE IF ~stub THEN "no_stub"
  ELSE IF spans = 0 THEN "empty"
  ELSE "send"

\* Variant of UseAsyncPath: max_concurrent_requests >= 1.
UseAsyncPathFromOne(enabled, max_concurrent) == enabled /\ max_concurrent >= 1

\* #ifdef ENABLE_ASYNC_EXPORT  if (options_.max_concurrent_requests > 1)
UseAsyncPath(enabled, max_concurrent) == enabled /\ max_concurrent > 1

\* Variant of SyncResult: the status is not looked at.
SyncResultIgnoresStatus(status_ok) == kSuccess

\* if (!status.ok()) return kFailure; ... return kSuccess;
SyncResult(status_ok) == IF status_ok THEN kSuccess ELSE kFailure

\* Export returns before a request is built.
ExportReturn(e, spans, result) ==
  /\ last' = [op |-> "Export", e |-> e, spans |-> spans, ret |-> result,
              path |-> "none", cop |-> "none", cret |-> TRUE]
  /\ UNCHANGED <<client_vars, transport_calls>>

\* Variant of ExportSync: a failed call gives the exporter's reference back.
ExportSyncReleasesOnFailure(e, spans, status_ok) ==
  /\ transport_calls < MaxRpc
  /\ transport_calls' = transport_calls + 1
  /\ last' = [op |-> "Export", e |-> e, spans |-> spans,
              ret |-> SyncResult(status_ok), path |-> "sync",
              cop |-> "DelegateExport", cret |-> status_ok]
  /\ refs' = IF status_ok THEN refs ELSE refs \ {e}
  /\ UNCHANGED <<client_is_shutdown, transport_released, running_requests>>

\* The synchronous branch: one DelegateExport, a blocking call that hands the
\* request to the transport; its status decides the result.
ExportSync(e, spans, status_ok) ==
  /\ DelegateExport
  /\ last' = [op |-> "Export", e |-> e, spans |-> spans,
              ret |-> SyncResult(status_ok), path |-> "sync",
              cop |-> "DelegateExport", cret |-> status_ok]

\* The asynchronous branch: Export returns what DelegateAsyncExport returns,
\* without waiting for the completion.
ExportAsync(e, spans) ==
  /\ DelegateAsyncExport(max_concurrent_requests[e])
  /\ last' = [op |-> "Export", e |-> e, spans |-> spans,
              ret |-> IF AsyncAdmitted(max_concurrent_requests[e])
                        THEN kSuccess ELSE kFailure,
              path |-> "async", cop |-> "DelegateAsyncExport",
              cret |-> AsyncAdmitted(max_concurrent_requests[e])]

\* OtlpGrpcExporter::Export; spans is the size of the batch, status_ok the
\* status the collector answers with on the synchronous path.
Export(e, spans, status_ok) ==
  /\ life[e] = "live"
  /\ LET guard == ExportGuard(is_shutdown_[e], client_[e],
                              trace_service_stub_[e], spans)
     IN  CASE guard = "shutdown" -> ExportReturn(e, spans, kFailure)
           [] guard = "no_stub"  -> ExportReturn(e, spans, kFailure)
           [] guard = "empty"    -> ExportReturn(e, spans, kSuccess)
           [] guard = "send"     ->
                IF UseAsyncPath(async_build, max_concurrent_requests[e])
                  THEN ExportAsync(e, spans)
                  ELSE ExportSync(e, spans, status_ok)
  /\ UNCHANGED <<async_build, exporter_vars, guard_calls, shutdown_returned, calls>>

\* Variant of ForceFlushResult: the client's answer is dropped.
ForceFlushResultAlwaysTrue(held, client_result) == TRUE

\* if (!client) return true; return client->ForceFlush(timeout);
ForceFlushResult(held, client_result) == IF ~held THEN TRUE ELSE client_result

\* OtlpGrpcExporter::ForceFlush
ForceFlush(e, drained) ==
  /\ life[e] = "live"
  /\ IF ~client_[e]
       THEN /\ last' = [op |-> "ForceFlush", e |-> e, spans |-> 0,
                        ret |-> ForceFlushResult(FALSE, TRUE),
                        path |-> "none", cop |-> "none", cret |-> TRUE]
            /\ UNCHANGED client_vars
       ELSE /\ ClientForceFlush(drained)
            /\ last' = [op |-> "ForceFlush", e |-> e, spans |-> 0,
                        ret |-> ForceFlushResult(TRUE, ClientForceFlushResult(drained)),
                        path |-> "none", cop |-> "ForceFlush",
                        cret |-> ClientForceFlushResult(drained)]
  /\ UNCHANGED <<async_build, exporter_vars, guard_calls, transport_calls,
                 shutdown_returned, calls>>

\* Variant of ClientAfterSwap: the handle is copied, client_ keeps it.
ClientAfterCopy(held) == held

\* std::shared_ptr<OtlpGrpcClient> client; client.swap(client_);
\* client_ is left with the empty handle.
ClientAfterSwap(held) == FALSE

\* Variant of ShutdownResult: the client's answer is dropped.
ShutdownResultAlwaysTrue(held, client_result) == TRUE

\* if (!client) return true; return client->Shutdown(guard, timeout);
ShutdownResult(held, client_result) == IF ~held THEN TRUE ELSE client_result

\* Variant of FlagAfterShutdown: the flag is flipped.
FlagFlippedByShutdown(flag) == ~flag

\* Variant of FlagAfterShutdown: the flag is not written.
FlagLeftByShutdown(flag) == flag

\* is_shutdown_ = true;
FlagAfterShutdown(flag) == TRUE

\* OtlpGrpcExporter::Shutdown
Shutdown(e, drained) ==
  /\ life[e] = "live"
  /\ is_shutdown_' = [is_shutdown_ EXCEPT ![e] = FlagAfterShutdown(is_shutdown_[e])]
  /\ client_' = [client_ EXCEPT ![e] = ClientAfterSwap(client_[e])]
  /\ IF ~client_[e]
       THEN /\ last' = [op |-> "Shutdown", e |-> e, spans |-> 0,
                        ret |-> ShutdownResult(FALSE, TRUE),
                        path |-> "none", cop |-> "none", cret |-> TRUE]
            /\ UNCHANGED <<client_vars, guard_calls>>
       ELSE /\ ClientShutdown(e, drained)
            /\ guard_calls' = [guard_calls EXCEPT ![e].shutdown = @ + 1]
            /\ last' = [op |-> "Shutdown", e |-> e, spans |-> 0,
                        ret |-> ShutdownResult(TRUE, ClientShutdownResult(e, drained)),
                        path |-> "none", cop |-> "Shutdown",
                        cret |-> ClientShutdownResult(e, drained)]
  /\ shutdown_returned' = [shutdown_returned EXCEPT ![e] = TRUE]
  /\ UNCHANGED <<async_build, life, trace_service_stub_, max_concurrent_requests,
                 transport_calls, calls>>

\* The client's worker resolves one asynchronous request and runs its
\* completion callback, which only logs.
AsyncComplete ==
  /\ running_requests > 0
  /\ running_requests' = running_requests - 1
  /\ UNCHANGED <<async_build, exporter_vars, guard_calls, refs, client_is_shutdown,
                 transport_released, transport_calls, shutdown_returned, calls, last>>

Next ==
  \/ \E e \in Exporters : ConstructFromOptions(e)
  \/ \E e \in Exporters : ConstructFromStub(e)
  \/ \E e \in Exporters, spans \in Batches, status_ok \in BOOLEAN :
       Export(e, spans, status_ok)
  \/ \E e \in Exporters, drained \in BOOLEAN : ForceFlush(e, drained)
  \/ \E e \in Exporters, drained \in BOOLEAN : Shutdown(e, drained)
  \/ \E e \in Exporters : Destroy(e)
  \/ AsyncComplete

Spec == Init /\ [][Next]_vars

\* ------------------------------------------------- calls made by threads
\* SpecThreads runs Export and Shutdown as threads run them: each
\* call is a sequence of steps, one per access to a member that other threads
\* access too, and the steps of different calls interleave. A call in
\* progress is a record: its method, the step it is about to take, the
\* exporter and the local variable client. What a call returns is not
\* recorded here, and last stays as it is.

\* A call in progress.
Call(op, pc, e, client) == [op |-> op, pc |-> pc, e |-> e, client |-> client]

\* A thread enters a call.
Enter(c) ==
  /\ BagCardinality(calls) < MaxCalls
  /\ calls' = calls (+) SetToBag({c})

\* A call in progress moves on to its next step.
Advance(c, d) == calls' = (calls (-) SetToBag({c})) (+) SetToBag({d})

\* A call in progress returns.
Leave(c) == calls' = calls (-) SetToBag({c})

\* The exporters as the threads find them: all built on the shared client
\* with a stub and with max_concurrent_requests = 2, no call made yet.
InitThreads ==
  /\ async_build \in BOOLEAN
  /\ life = [e \in Exporters |-> "live"]
  /\ is_shutdown_ = [e \in Exporters |-> FALSE]
  /\ client_ = [e \in Exporters |-> TRUE]
  /\ trace_service_stub_ = [e \in Exporters |-> TRUE]
  /\ max_concurrent_requests = [e \in Exporters |-> 2]
  /\ guard_calls = [e \in Exporters |-> [add |-> 1, shutdown |-> 0, remove |-> 0]]
  /\ refs = Exporters
  /\ client_is_shutdown = FALSE
  /\ transport_released = 0
  /\ running_requests = 0
  /\ transport_calls = 0
  /\ shutdown_returned = [e \in Exporters |-> FALSE]
  /\ calls = EmptyBag
  /\ last = NoCall

\* Export: std::shared_ptr<OtlpGrpcClient> client = client_;
ExportCopyClient(e) ==
  /\ life[e] = "live"
  /\ Enter(Call("Export", "guards", e, client_[e]))
  /\ UNCHANGED <<async_build, exporter_vars, guard_calls, client_vars,
                 transport_calls, shutdown_returned, last>>

\* Export: the guards, with is_shutdown_ as it is now and the client as it
\* was copied. A batch that passes them is built into a request; any other
\* makes Export return.
ExportCheckGuards(c, spans) ==
  /\ c.op = "Export" /\ c.pc = "guards"
  /\ IF ExportGuard(is_shutdown_[c.e], c.client, trace_service_stub_[c.e], spans) = "send"
       THEN Advance(c, Call("Export", "dispatch", c.e, c.client))
       ELSE Leave(c)
  /\ UNCHANGED <<async_build, exporter_vars, guard_calls, client_vars,
                 transport_calls, shutdown_returned, last>>

\* Export: the request goes to DelegateAsyncExport or to DelegateExport, and
\* Export returns.
ExportDispatch(c) ==
  /\ c.op = "Export" /\ c.pc = "dispatch"
  /\ IF UseAsyncPath(async_build, max_concurrent_requests[c.e])
       THEN DelegateAsyncExport(max_concurrent_requests[c.e])
       ELSE DelegateExport
  /\ Leave(c)
  /\ UNCHANGED <<async_build, exporter_vars, guard_calls, shutdown_returned, last>>

\* Shutdown: is_shutdown_ = true; the local client is declared empty.
ShutdownSetFlag(e) ==
  /\ life[e] = "live"
  /\ is_shutdown_' = [is_shutdown_ EXCEPT ![e] = FlagAfterShutdown(is_shutdown_[e])]
  /\ Enter(Call("Shutdown", "swap_read", e, FALSE))
  /\ UNCHANGED <<async_build, life, client_, trace_service_stub_,
                 max_concurrent_requests, guard_calls, client_vars,
                 transport_calls, shutdown_returned, last>>

\* Shutdown: client.swap(client_), first half. std::shared_ptr::swap is a
\* plain exchange of two pointers, not one atomic operation: it reads client_
\* here and writes it in the next step.
ShutdownSwapRead(c) ==
  /\ c.op = "Shutdown" /\ c.pc = "swap_read"
  /\ Advance(c, Call("Shutdown", "swap_write", c.e, client_[c.e]))
  /\ UNCHANGED <<async_build, exporter_vars, guard_calls, client_vars,
                 transport_calls, shutdown_returned, last>>

\* Shutdown: client.swap(client_), second half: client_ takes the empty
\* handle of the local, the local holds what was read.
ShutdownSwapWrite(c) ==
  /\ c.op = "Shutdown" /\ c.pc = "swap_write"
  /\ client_' = [client_ EXCEPT ![c.e] = ClientAfterSwap(client_[c.e])]
  /\ Advance(c, Call("Shutdown", "finish", c.e, c.client))
  /\ UNCHANGED <<async_build, life, is_shutdown_, trace_service_stub_,
                 max_concurrent_requests, guard_calls, client_vars,
                 transport_calls, shutdown_returned, last>>

\* Shutdown: if (!client) return true;
\*           return client->Shutdown(*client_reference_guard_, timeout);
ShutdownFinish(c, drained) ==
  /\ c.op = "Shutdown" /\ c.pc = "finish"
  /\ IF ~c.client
       THEN UNCHANGED <<client_vars, guard_calls>>
       ELSE /\ ClientShutdown(c.e, drained)
            /\ guard_calls' = [guard_calls EXCEPT ![c.e].shutdown = @ + 1]
  /\ shutdown_returned' = [shutdown_returned EXCEPT ![c.e] = TRUE]
  /\ Leave(c)
  /\ UNCHANGED <<async_build, exporter_vars, transport_calls, last>>

NextThreads ==
  \/ \E e \in Exporters : ExportCopyClient(e)
  \/ \E c \in BagToSet(calls), spans \in Batches : ExportCheckGuards(c, spans)
  \/ \E c \in BagToSet(calls) : ExportDispatch(c)
  \/ \E e \in Exporters : ShutdownSetFlag(e)
  \/ \E c \in BagToSet(calls) : ShutdownSwapRead(c)
  \/ \E c \in BagToSet(calls) : ShutdownSwapWrite(c)
  \/ \E c \in BagToSet(calls), drained \in BOOLEAN : ShutdownFinish(c, drained)
  \/ AsyncComplete

SpecThreads == InitThreads /\ [][NextThreads]_vars

\* ------------------------------------------------------------- properties

\* The exporter is constructed, not shut down, and holds its client.
Active(e) == life[e] = "live" /\ ~is_shutdown_[e] /\ client_[e]

\* The exporter is a live holder of the shared client.
LiveHolder(e) == life[e] = "live" /\ client_[e]

\* The exporter has called Shutdown or has been destroyed.
HasLeft(e) == life[e] = "destroyed" \/ shutdown_returned[e]

\* The step hands nothing to the transport.
NothingSent ==
  /\ transport_calls' = transport_calls
  /\ running_requests' = running_requests
  /\ last'.path = "none"
  /\ last'.cop = "none"

\* Export would take the asynchronous path on exporter e.
AsyncConfigured(e) == async_build /\ max_concurrent_requests[e] > 1

\* The step is the call Export(spans) on exporter e, answered with status_ok
\* if it reaches the collector. (The test of last' comes first to spare the
\* evaluation of the action on the steps of other calls.)
ExportCall(e, spans, status_ok) ==
  /\ last'.op = "Export"
  /\ last'.e = e
  /\ last'.spans = spans
  /\ Export(e, spans, status_ok)

\* The step is the call ForceFlush on exporter e.
ForceFlushCall(e, drained) ==
  /\ last'.op = "ForceFlush"
  /\ last'.e = e
  /\ ForceFlush(e, drained)

\* The step is the call Shutdown on exporter e.
ShutdownCall(e, drained) ==
  /\ last'.op = "Shutdown"
  /\ last'.e = e
  /\ Shutdown(e, drained)

\* C1: once a Shutdown call has returned on an exporter, every Export call on
\* that exporter, whatever the batch and whichever path is configured,
\* returns kFailure and the transport receives no new request.
C1_PostShutdownExportFails ==
  [][\A e \in Exporters, spans \in Batches, status_ok \in BOOLEAN :
       (shutdown_returned[e] /\ ExportCall(e, spans, status_ok))
         => (last'.ret = kFailure /\ NothingSent)]_vars

\* An Export of a non-empty batch has failed on an exporter that has a stub
\* and on which Shutdown had returned, and the transport has seen nothing.
C1_Witness ==
  /\ last.op = "Export"
  /\ last.spans > 0
  /\ last.ret = kFailure
  /\ life[last.e] = "live"
  /\ shutdown_returned[last.e]
  /\ trace_service_stub_[last.e]
  /\ transport_calls = 0

\* C2 as stated: Export of an empty batch returns kSuccess and sends nothing
\* in every state of the exporter, also without a stub and after Shutdown.
C2_EmptyBatchAlwaysSucceeds ==
  [][\A e \in Exporters, status_ok \in BOOLEAN :
       ExportCall(e, 0, status_ok) => (last'.ret = kSuccess /\ NothingSent)]_vars

\* C2, amended: Export of an empty batch never sends anything; it returns
\* kSuccess exactly when the exporter is not shut down, holds its client and
\* has a stub, whatever that stub would answer, and kFailure otherwise.
C2_EmptyBatchSucceedsWhenReady ==
  [][\A e \in Exporters, status_ok \in BOOLEAN :
       ExportCall(e, 0, status_ok)
         => /\ NothingSent
            /\ (Active(e) /\ trace_service_stub_[e]) => last'.ret = kSuccess
            /\ ~(Active(e) /\ trace_service_stub_[e]) => last'.ret = kFailure]_vars

\* An Export of an empty batch has returned kSuccess on an active exporter.
C2_Witness ==
  /\ last.op = "Export"
  /\ last.spans = 0
  /\ last.ret = kSuccess
  /\ Active(last.e)
  /\ trace_service_stub_[last.e]
  /\ transport_calls = 0

\* C3 as stated: every one of the Shutdown calls on an exporter returns true,
\* and only the first of them decrements the client's reference count.
C3_ShutdownTwiceBothTrue ==
  [][\A e \in Exporters, drained \in BOOLEAN :
       ShutdownCall(e, drained)
         => /\ last'.ret = TRUE
            /\ shutdown_returned[e] => (refs' = refs /\ last'.cop = "none")]_vars

\* C3, amended: the first Shutdown call on an exporter reaches the client
\* once, takes the exporter's guard out of the live references and returns
\* the client's answer (false when the drain did not finish in time); every
\* later Shutdown call returns true, does not reach the client and leaves the
\* reference count alone.
C3_ShutdownTwiceDecrementsOnce ==
  [][\A e \in Exporters, drained \in BOOLEAN :
       ShutdownCall(e, drained)
         => /\ ~shutdown_returned[e]
                 => /\ last'.cop = "Shutdown"
                    /\ last'.ret = last'.cret
                    /\ e \in refs /\ refs' = refs \ {e}
                    /\ guard_calls'[e].shutdown = 1
            /\ shutdown_returned[e]
                 => /\ last'.ret = TRUE
                    /\ last'.cop = "none"
                    /\ refs' = refs
                    /\ client_is_shutdown' = client_is_shutdown
                    /\ transport_released' = transport_released
                    /\ guard_calls' = guard_calls]_vars

\* A second Shutdown has returned true without reaching the client, after the
\* first one took the guard out of the references.
C3_Witness ==
  /\ last.op = "Shutdown"
  /\ last.cop = "none"
  /\ last.ret = TRUE
  /\ life[last.e] = "live"
  /\ guard_calls[last.e].shutdown = 1
  /\ last.e \notin refs

\* C4: when every exporter built on the shared client has called Shutdown or
\* has been destroyed, in any order and any mix, the client has no live
\* reference left and has released its transport exactly once.
C4_ReferenceSymmetry ==
  ((\E e \in Exporters : life[e] # "none")
     /\ (\A e \in Exporters : life[e] # "none" => HasLeft(e)))
    => (Cardinality(refs) = 0 /\ transport_released = 1)

\* All the exporters were built and have left, one of them shut down and then
\* destroyed, another destroyed without Shutdown.
C4_Witness ==
  /\ \A e \in Exporters : life[e] # "none" /\ HasLeft(e)
  /\ \E e \in Exporters : life[e] = "destroyed" /\ shutdown_returned[e]
  /\ \E e \in Exporters : life[e] = "destroyed" /\ ~shutdown_returned[e]
  /\ refs = {}
  /\ transport_released = 1

\* C5: an exporter's guard is registered once, by its constructor, and taken
\* back at most once while the exporter lives and exactly once by the time it
\* is destroyed: by the client's Shutdown or by RemoveReference, never both.
C5_GuardRegisteredAndRemovedOnce ==
  \A e \in Exporters :
    /\ life[e] = "none" => guard_calls[e] = NoGuardCalls
    /\ life[e] # "none" => guard_calls[e].add = 1
    /\ guard_calls[e].shutdown + guard_calls[e].remove <= 1
    /\ LiveHolder(e) => guard_calls[e].shutdown + guard_calls[e].remove = 0
    /\ life[e] = "destroyed"
         => guard_calls[e].shutdown + guard_calls[e].remove = 1

\* One exporter was destroyed after its guard went through the client's
\* Shutdown, another was destroyed with its guard going through RemoveReference.
C5_Witness ==
  /\ \E e \in Exporters :
       life[e] = "destroyed" /\ guard_calls[e] = [add |-> 1, shutdown |-> 1, remove |-> 0]
  /\ \E e \in Exporters :
       life[e] = "destroyed" /\ guard_calls[e] = [add |-> 1, shutdown |-> 0, remove |-> 1]

\* C6: Export tests, in this order, shut down or client gone (kFailure), no
\* stub (kFailure), empty batch (kSuccess), and in each of these cases builds
\* no request and sends nothing.
C6_ExportGuardOrder ==
  [][\A e \in Exporters, spans \in Batches, status_ok \in BOOLEAN :
       ExportCall(e, spans, status_ok)
         => /\ (is_shutdown_[e] \/ ~client_[e])
                 => (last'.ret = kFailure /\ NothingSent)
            /\ (~(is_shutdown_[e] \/ ~client_[e]) /\ ~trace_service_stub_[e])
                 => (last'.ret = kFailure /\ NothingSent)
            /\ (~(is_shutdown_[e] \/ ~client_[e]) /\ trace_service_stub_[e]
                  /\ spans = 0)
                 => (last'.ret = kSuccess /\ NothingSent)]_vars

\* An Export of an empty batch has failed on an exporter that is not shut
\* down and has no stub.
C6_Witness ==
  /\ last.op = "Export"
  /\ last.spans = 0
  /\ last.ret = kFailure
  /\ Active(last.e)
  /\ ~trace_service_stub_[last.e]

\* C7: on the synchronous path an Export of a non-empty batch on an active
\* exporter with a stub hands exactly one request to the transport and
\* returns kSuccess if and only if the status that comes back is OK.
C7_SyncExportOneRpc ==
  [][\A e \in Exporters, spans \in Batches \ {0}, status_ok \in BOOLEAN :
       (Active(e) /\ trace_service_stub_[e] /\ ~AsyncConfigured(e)
          /\ ExportCall(e, spans, status_ok))
         => /\ transport_calls' = transport_calls + 1
            /\ last'.cop = "DelegateExport"
            /\ last'.ret = kSuccess <=> status_ok
            /\ last'.ret = kFailure <=> ~status_ok]_vars

\* A synchronous Export has failed on a status that was not OK, after one
\* request and no more.
C7_Witness ==
  /\ last.op = "Export"
  /\ last.path = "sync"
  /\ last.cret = FALSE
  /\ last.ret = kFailure
  /\ transport_calls = 1

\* C8: Shutdown on an exporter while another exporter is a live holder of the
\* shared client only takes one reference away: the transport is not
\* released, nothing is drained, the client keeps accepting sends and the
\* other exporters are untouched. The transport is released only by a step
\* after which no exporter holds the client. While it is not released, an
\* Export of a non-empty batch on an active exporter with a stub, made after
\* another exporter was shut down, still reaches the transport.
C8_SharedClientOutlivesOneExporter ==
  [][/\ \A a \in Exporters, drained \in BOOLEAN :
          (LiveHolder(a) /\ (\E b \in Exporters \ {a} : LiveHolder(b))
             /\ ShutdownCall(a, drained))
            => /\ transport_released' = transport_released
               /\ client_is_shutdown' = client_is_shutdown
               /\ running_requests' = running_requests
               /\ Cardinality(refs') = Cardinality(refs) - 1
               /\ \A b \in Exporters \ {a} :
                    /\ is_shutdown_'[b] = is_shutdown_[b]
                    /\ client_'[b] = client_[b]
     /\ transport_released' # transport_released
          => /\ transport_released' = transport_released + 1
             /\ \A b \in Exporters : ~(life'[b] = "live" /\ client_'[b])
     /\ \A b \in Exporters, spans \in Batches \ {0}, status_ok \in BOOLEAN :
          (Active(b) /\ trace_service_stub_[b] /\ transport_released = 0
             /\ (\E a \in Exporters \ {b} : shutdown_returned[a])
             /\ ExportCall(b, spans, status_ok))
            => /\ last'.path \in {"sync", "async"}
               /\ last'.path = "sync" => transport_calls' = transport_calls + 1
               /\ (last'.path = "async"
                     /\ running_requests < max_concurrent_requests[b])
                    => (transport_calls' = transport_calls + 1
                          /\ last'.ret = kSuccess)]_vars

\* After Shutdown has returned on one exporter, an Export on another one has
\* sent a request and returned kSuccess, the transport not being released.
C8_Witness ==
  /\ last.op = "Export"
  /\ last.ret = kSuccess
  /\ last.path = "sync"
  /\ Active(last.e)
  /\ \E a \in Exporters \ {last.e} : life[a] = "live" /\ shutdown_returned[a]
  /\ transport_released = 0
  /\ transport_calls >= 1

\* C9: ForceFlush returns true without calling the client when the exporter
\* holds no client, and otherwise returns what the client's ForceFlush
\* returns; it leaves the shutdown flag, the client handle, the guard and the
\* client's references as they were, so an active exporter stays active.
C9_ForceFlushFrame ==
  [][\A e \in Exporters, drained \in BOOLEAN :
       ForceFlushCall(e, drained)
         => /\ ~client_[e]
                 => /\ last'.ret = TRUE
                    /\ last'.cop = "none"
                    /\ running_requests' = running_requests
            /\ client_[e]
                 => /\ last'.cop = "ForceFlush"
                    /\ last'.ret = last'.cret
            /\ is_shutdown_' = is_shutdown_
            /\ client_' = client_
            /\ guard_calls' = guard_calls
            /\ refs' = refs
            /\ client_is_shutdown' = client_is_shutdown
            /\ transport_released' = transport_released
            /\ transport_calls' = transport_calls]_vars

\* A ForceFlush has returned the client's false on an exporter that is still
\* active afterwards.
C9_Witness ==
  /\ last.op = "ForceFlush"
  /\ last.cop = "ForceFlush"
  /\ last.ret = FALSE
  /\ Active(last.e)
  /\ last.e \in refs

\* C10: an Export of a non-empty batch that passes its guards takes exactly
\* one of the two paths: the asynchronous one if and only if asynchronous
\* export is built in and max_concurrent_requests is greater than 1, the
\* synchronous one otherwise.
C10_PathSelection ==
  [][\A e \in Exporters, spans \in Batches \ {0}, status_ok \in BOOLEAN :
       (Active(e) /\ trace_service_stub_[e] /\ ExportCall(e, spans, status_ok))
         => /\ last'.path \in {"sync", "async"}
            /\ last'.path = "async"
                 <=> (async_build /\ max_concurrent_requests[e] > 1)
            /\ last'.path = "sync"
                 <=> (~async_build \/ max_concurrent_requests[e] <= 1)
            /\ last'.path = "async" <=> last'.cop = "DelegateAsyncExport"
            /\ last'.path = "sync" <=> last'.cop = "DelegateExport"]_vars

\* With asynchronous export built in, an Export with max_concurrent_requests
\* equal to 1 has gone the synchronous way.
C10_Witness ==
  /\ last.op = "Export"
  /\ last.path = "sync"
  /\ async_build
  /\ life[last.e] = "live"
  /\ max_concurrent_requests[last.e] = 1

\* The step is the destruction of exporter e.
DestroyCall(e) ==
  /\ life[e] = "live"
  /\ life'[e] = "destroyed"
  /\ Destroy(e)

\* C13: Shutdown on an exporter that holds its client calls the client's
\* Shutdown with its guard and returns exactly what that call returns, false
\* when the drain the client starts for its last reference did not finish
\* within the timeout; it returns true without calling the client exactly
\* when it holds no client.
C13_ShutdownReturnsClientResult ==
  [][\A e \in Exporters, drained \in BOOLEAN :
       ShutdownCall(e, drained)
         => /\ client_[e]
                 => /\ last'.cop = "Shutdown"
                    /\ guard_calls'[e].shutdown = guard_calls[e].shutdown + 1
                    /\ last'.ret = last'.cret
                    /\ (LastReference(e) /\ ~client_is_shutdown
                          /\ running_requests > 0 /\ ~drained)
                         => last'.ret = FALSE
            /\ ~client_[e]
                 => /\ last'.cop = "none"
                    /\ guard_calls' = guard_calls
                    /\ last'.ret = TRUE
            /\ last'.cop = "none" <=> ~client_[e]]_vars

\* A Shutdown on the last holder has returned false: requests were in flight
\* and the drain did not finish in time.
C13_Witness ==
  /\ last.op = "Shutdown"
  /\ last.cop = "Shutdown"
  /\ last.cret = FALSE
  /\ last.ret = FALSE
  /\ running_requests > 0
  /\ refs = {}

\* C14: destroying an exporter on which Shutdown was never called calls the
\* client's RemoveReference with its guard once, never the client's Shutdown,
\* and waits for nothing; destroying it after Shutdown calls neither.
C14_DestructorRemovesWithoutBlocking ==
  [][\A e \in Exporters :
       DestroyCall(e)
         => /\ guard_calls'[e].shutdown = guard_calls[e].shutdown
            /\ running_requests' = running_requests
            /\ ~shutdown_returned[e]
                 => /\ guard_calls'[e].remove = guard_calls[e].remove + 1
                    /\ guard_calls'[e].remove = 1
                    /\ guard_calls'[e].shutdown = 0
                    /\ e \in refs /\ refs' = refs \ {e}
            /\ shutdown_returned[e]
                 => /\ guard_calls' = guard_calls
                    /\ refs' = refs
                    /\ client_is_shutdown' = client_is_shutdown
                    /\ transport_released' = transport_released]_vars

\* An exporter that was never shut down has been destroyed while requests
\* were in flight: its guard went through RemoveReference and the requests
\* are still in flight.
C14_Witness ==
  \E e \in Exporters :
    /\ life[e] = "destroyed"
    /\ ~shutdown_returned[e]
    /\ guard_calls[e] = [add |-> 1, shutdown |-> 0, remove |-> 1]
    /\ running_requests > 0
    /\ refs = {}

\* C15: while an exporter lives, no call takes it back to Active: once its
\* shutdown flag is set it stays set, and once its client handle is cleared
\* it stays cleared.
C15_NoWayBackToActive ==
  [][\A e \in Exporters :
       (life[e] = "live" /\ life'[e] = "live")
         => /\ is_shutdown_[e] => is_shutdown_'[e]
            /\ ~client_[e] => ~client_'[e]
            /\ ~Active(e) => ~(~is_shutdown_'[e] /\ client_'[e])]_vars

\* An Export, after a second Shutdown, finds the exporter still shut down.
C15_Witness ==
  /\ last.op = "Export"
  /\ last.ret = kFailure
  /\ life[last.e] = "live"
  /\ is_shutdown_[last.e]
  /\ ~client_[last.e]
  /\ shutdown_returned[last.e]
  /\ last.spans > 0

\* C17: an Export call, whatever its outcome, leaves the exporter's shutdown
\* flag, client handle and guard and the client's live references as they
\* were before the call.
C17_ExportFrame ==
  [][\A e \in Exporters, spans \in Batches, status_ok \in BOOLEAN :
       ExportCall(e, spans, status_ok)
         => /\ life' = life
            /\ is_shutdown_' = is_shutdown_
            /\ client_' = client_
            /\ trace_service_stub_' = trace_service_stub_
            /\ guard_calls' = guard_calls
            /\ refs' = refs
            /\ client_is_shutdown' = client_is_shutdown
            /\ transport_released' = transport_released]_vars

\* A synchronous Export has failed at the transport and the exporter is
\* still active and still registered with the client.
C17_Witness ==
  /\ last.op = "Export"
  /\ last.path = "sync"
  /\ last.ret = kFailure
  /\ Active(last.e)
  /\ last.e \in refs
  /\ guard_calls[last.e] = [add |-> 1, shutdown |-> 0, remove |-> 0]


\* ------------------------------------------- claims about calls by threads

\* C11: when several threads call Shutdown on the same exporter, at most one
\* of them obtains the client and calls the client's Shutdown for the
\* exporter's guard. As a state predicate: no guard is ever handed to the
\* client's Shutdown more than once.
C11_OneCallerDrivesShutdown ==
  \A e \in Exporters : guard_calls[e].shutdown <= 1

\* C12: under any interleaving of Export and Shutdown calls, no RPC is started
\* once the client's shutdown for the last reference has completed. A step
\* that hands a request to the transport starts from a state where the client
\* has not shut down.
C12_NoRpcAfterClientShutdown ==
  [][transport_calls' > transport_calls => ~client_is_shutdown]_vars

\* C16: in every state, those between the steps of a Shutdown in progress
\* included, an exporter whose client handle is cleared has its shutdown flag
\* set, and so has every exporter on which a call in progress found no client.
C16_ClearedHandleImpliesFlag ==
  /\ \A e \in Exporters : life[e] = "live" /\ ~client_[e] => is_shutdown_[e]
  /\ \A c \in BagToSet(calls) : ~c.client => is_shutdown_[c.e]

\* A Shutdown has cleared the handle and not yet returned, while an Export on
\* another thread has copied the cleared handle and not yet tested it.
C16_Witness ==
  \E c, d \in BagToSet(calls) :
    /\ c.op = "Shutdown" /\ c.pc = "finish"
    /\ d.op = "Export" /\ d.pc = "guards" /\ d.e = c.e /\ ~d.client
    /\ ~client_[c.e]

====
